---- MODULE Spec2Model ----
(***************************************************************************)
(* FixedSizeListBuilder of arrow-array                                     *)
(* (src/arrow-array/src/builder/fixed_size_list_builder.rs).               *)
(*                                                                         *)
(* The builder owns a child builder (values_builder) and a validity        *)
(* tracker (null_buffer_builder).  Child values are appended through the   *)
(* values() accessor, append(is_valid) delimits a row, and finish() /      *)
(* finish_cloned() validate and assemble a FixedSizeListArray.  A failed   *)
(* assertion is a panic: the call returns no array, and the builder keeps  *)
(* whatever state the call had reached.                                    *)
(***************************************************************************)
EXTENDS Integers, Sequences, FiniteSets

\* ------------------------------------------------------------- bounds
\* Most rows the validity tracker holds.
MaxRows == 2
\* Most child values the child builder holds.
MaxChild == 4
\* Largest value_length a builder is constructed with.
MaxListLen == 2
\* Most child values the child builder already holds when handed to new().
MaxInitChild == 1
\* Largest capacity with_capacity() is called with.
MaxCapacity == 2

\* ------------------------------------------------------------ options
\* Rust's Option<T>: None is the empty sequence, Some(x) the one-element one.
None == <<>>
Some(x) == <<x>>

\* ------------------------------------------------- external collaborators
\* The child values an element builder accepts: one non-null value and null.
ChildValues == {7}
ChildElems == {None} \cup {Some(v) : v \in ChildValues}

\* The element types a child builder may have (Int32Builder, Int64Builder).
DataTypes == {"Int32", "Int64"}

\* Field::new(name, data_type, nullable).
Field(name, data_type, nullable) ==
    [name |-> name, data_type |-> data_type, nullable |-> nullable]

\* The fields a caller may pass to with_field.
FieldNames == {"list_item"}
Fields == {Field(n, t, b) : n \in FieldNames, t \in DataTypes, b \in BOOLEAN}

\* All sequences over S of length at most n.
SeqUpTo(S, n) == UNION {[1..k -> S] : k \in 0..n}

\* ArrayData::null_count of the finished child array: its null elements.
NullCount(values) == Cardinality({i \in 1..Len(values) : values[i] = None})

\* ArrayBuilder::finish of the child builder: the array, and the builder reset.
ValuesFinish(vb, dt) ==
    [array |-> [data_type |-> dt, values |-> vb], builder |-> <<>>]

\* ArrayBuilder::finish_cloned of the child builder: the array, builder kept.
ValuesFinishCloned(vb, dt) ==
    [array |-> [data_type |-> dt, values |-> vb], builder |-> vb]

\* NullBufferBuilder::new(capacity): an empty tracker; the capacity reserves
\* space and is no part of what the tracker holds.
NullBufferNew(capacity) == <<>>

\* NullBufferBuilder::finish: the validity bitmap, and the tracker reset.
NullBufferFinish(nbb) == [nulls |-> nbb, builder |-> <<>>]

\* NullBufferBuilder::finish_cloned: the validity bitmap, tracker kept.
NullBufferFinishCloned(nbb) == [nulls |-> nbb, builder |-> nbb]

\* -------------------------------------------------------------- state
VARIABLES
    null_buffer_builder,  \* validity flags of the rows delimited so far
    values_builder,       \* child values appended so far
    values_type,          \* element type of the child builder T
    list_len,             \* value_length given at construction
    field,                \* Option<FieldRef>: the override of with_field
    last_call,            \* the operation that ran last
    out,                  \* what the last call returned, or the panic it raised
    calls,                \* history: is_valid flags passed to append in the
                          \* build cycle the last call belongs to; a cycle
                          \* ends with a finish() call
    tracked,              \* history: is_valid flags passed to append since
                          \* the validity tracker was last reset, as of the
                          \* start of the last call
    sized,                \* history: every row delimited so far had exactly
                          \* list_len child values, and no finish() was
                          \* called inside a row
    snap,                 \* history: Option of the rows (validity bitmap and
                          \* child values) of the last array finish_cloned()
                          \* returned in the build cycle of the last call
    given_len             \* history: the value_length the constructor was
                          \* called with

vars == <<null_buffer_builder, values_builder, values_type, list_len, field,
          last_call, out, calls, tracked, sized, snap, given_len>>

\* A call that returns no array and raises nothing (new, with_capacity,
\* values().append_*, append, with_field).
NoResult == [kind |-> "none"]

\* ------------------------------------------------------------ results
\* The panic of the length assertion, with the three numbers of its message.
LengthMismatch(actual, ll, n) ==
    [kind |-> "LengthMismatch", actual |-> actual, list_len |-> ll,
     row_count |-> n]

\* The panic of the data type assertion, with the two types of its message.
TypeMismatch(ft, vt) ==
    [kind |-> "TypeMismatch", field_type |-> ft, values_type |-> vt]

\* The panic of the nullability assertion.
NullabilityViolation == [kind |-> "NullabilityViolation"]

\* The array built with the row count and the value length swapped.
build_unchecked_swapped(f, ll, n, values_data, nulls) ==
    [kind |-> "value", row_count |-> ll, list_len |-> n, field |-> f,
     values_data |-> values_data, nulls |-> nulls]

\* ArrayData::builder(FixedSizeList(field, list_len)).len(len)
\*   .add_child_data(values_data).nulls(nulls).build_unchecked(): no check.
build_unchecked(f, ll, n, values_data, nulls) ==
    [kind |-> "value", row_count |-> n, list_len |-> ll, field |-> f,
     values_data |-> values_data, nulls |-> nulls]

\* The default field created non-nullable.
DefaultField_non_nullable(values_data) ==
    Field("item", values_data.data_type, FALSE)

\* Field::new("item", values_data.data_type().clone(), true)
DefaultField(values_data) == Field("item", values_data.data_type, TRUE)

\* FixedSizeListBuilder::len
len == Len(null_buffer_builder)

\* FixedSizeListBuilder::value_length
value_length == list_len

\* finish() whose length assertion only catches a child array that is too short.
FinishOutcome_short_only(nbb, vb, dt, f, ll) ==
    LET n == Len(nbb)
        values_data == ValuesFinish(vb, dt).array
    IN  IF Len(values_data.values) < n * ll
        THEN LengthMismatch(Len(values_data.values), ll, n)
        ELSE LET nulls == NullBufferFinish(nbb).nulls
             IN  IF f # None
                 THEN IF f[1].data_type # values_data.data_type
                      THEN TypeMismatch(f[1].data_type, values_data.data_type)
                      ELSE IF ~f[1].nullable /\ NullCount(values_data.values) # 0
                           THEN NullabilityViolation
                           ELSE build_unchecked(f[1], ll, n, values_data, nulls)
                 ELSE build_unchecked(DefaultField(values_data), ll, n,
                                      values_data, nulls)

\* finish() without the data type assertion.
FinishOutcome_no_type_check(nbb, vb, dt, f, ll) ==
    LET n == Len(nbb)
        values_data == ValuesFinish(vb, dt).array
    IN  IF Len(values_data.values) # n * ll
        THEN LengthMismatch(Len(values_data.values), ll, n)
        ELSE LET nulls == NullBufferFinish(nbb).nulls
             IN  IF f # None
                 THEN IF ~f[1].nullable /\ NullCount(values_data.values) # 0
                      THEN NullabilityViolation
                      ELSE build_unchecked(f[1], ll, n, values_data, nulls)
                 ELSE build_unchecked(DefaultField(values_data), ll, n,
                                      values_data, nulls)

\* finish() whose nullability assertion reads the rows' validity bitmap
\* instead of the child array's null count.
FinishOutcome_rows_null_check(nbb, vb, dt, f, ll) ==
    LET n == Len(nbb)
        values_data == ValuesFinish(vb, dt).array
    IN  IF Len(values_data.values) # n * ll
        THEN LengthMismatch(Len(values_data.values), ll, n)
        ELSE LET nulls == NullBufferFinish(nbb).nulls
             IN  IF f # None
                 THEN IF f[1].data_type # values_data.data_type
                      THEN TypeMismatch(f[1].data_type, values_data.data_type)
                      ELSE IF ~f[1].nullable /\ (\E i \in 1..n : ~nulls[i])
                           THEN NullabilityViolation
                           ELSE build_unchecked(f[1], ll, n, values_data, nulls)
                 ELSE build_unchecked(DefaultField(values_data), ll, n,
                                      values_data, nulls)

\* What finish() returns or raises, from the state it is called in.
FinishOutcome(nbb, vb, dt, f, ll) ==
    LET n == Len(nbb)
        values_data == ValuesFinish(vb, dt).array
    IN  IF Len(values_data.values) # n * ll
        THEN LengthMismatch(Len(values_data.values), ll, n)
        ELSE LET nulls == NullBufferFinish(nbb).nulls
             IN  IF f # None
                 THEN IF f[1].data_type # values_data.data_type
                      THEN TypeMismatch(f[1].data_type, values_data.data_type)
                      ELSE IF ~f[1].nullable /\ NullCount(values_data.values) # 0
                           THEN NullabilityViolation
                           ELSE build_unchecked(f[1], ll, n, values_data, nulls)
                 ELSE build_unchecked(DefaultField(values_data), ll, n,
                                      values_data, nulls)

\* finish_cloned() without the length assertion.
FinishClonedOutcome_no_length_check(nbb, vb, dt, f, ll) ==
    LET n == Len(nbb)
        values_data == ValuesFinishCloned(vb, dt).array
        nulls == NullBufferFinishCloned(nbb).nulls
    IN  IF f # None
        THEN IF f[1].data_type # values_data.data_type
             THEN TypeMismatch(f[1].data_type, values_data.data_type)
             ELSE IF ~f[1].nullable /\ NullCount(values_data.values) # 0
                  THEN NullabilityViolation
                  ELSE build_unchecked(f[1], ll, n, values_data, nulls)
        ELSE build_unchecked(DefaultField(values_data), ll, n, values_data,
                             nulls)

\* finish_cloned() without the nullability assertion.
FinishClonedOutcome_no_null_check(nbb, vb, dt, f, ll) ==
    LET n == Len(nbb)
        values_data == ValuesFinishCloned(vb, dt).array
    IN  IF Len(values_data.values) # n * ll
        THEN LengthMismatch(Len(values_data.values), ll, n)
        ELSE LET nulls == NullBufferFinishCloned(nbb).nulls
             IN  IF f # None
                 THEN IF f[1].data_type # values_data.data_type
                      THEN TypeMismatch(f[1].data_type, values_data.data_type)
                      ELSE build_unchecked(f[1], ll, n, values_data, nulls)
                 ELSE build_unchecked(DefaultField(values_data), ll, n,
                                      values_data, nulls)

\* finish_cloned() that resolves the field before the length assertion.
FinishClonedOutcome_field_first(nbb, vb, dt, f, ll) ==
    LET n == Len(nbb)
        values_data == ValuesFinishCloned(vb, dt).array
        nulls == NullBufferFinishCloned(nbb).nulls
    IN  IF f # None /\ f[1].data_type # values_data.data_type
        THEN TypeMismatch(f[1].data_type, values_data.data_type)
        ELSE IF f # None /\ ~f[1].nullable
                         /\ NullCount(values_data.values) # 0
             THEN NullabilityViolation
             ELSE IF Len(values_data.values) # n * ll
                  THEN LengthMismatch(Len(values_data.values), ll, n)
                  ELSE build_unchecked(
                           IF f # None THEN f[1] ELSE DefaultField(values_data),
                           ll, n, values_data, nulls)

\* What finish_cloned() returns or raises, from the state it is called in.
FinishClonedOutcome(nbb, vb, dt, f, ll) ==
    LET n == Len(nbb)
        values_data == ValuesFinishCloned(vb, dt).array
    IN  IF Len(values_data.values) # n * ll
        THEN LengthMismatch(Len(values_data.values), ll, n)
        ELSE LET nulls == NullBufferFinishCloned(nbb).nulls
             IN  IF f # None
                 THEN IF f[1].data_type # values_data.data_type
                      THEN TypeMismatch(f[1].data_type, values_data.data_type)
                      ELSE IF ~f[1].nullable /\ NullCount(values_data.values) # 0
                           THEN NullabilityViolation
                           ELSE build_unchecked(f[1], ll, n, values_data, nulls)
                 ELSE build_unchecked(DefaultField(values_data), ll, n,
                                      values_data, nulls)

\* ------------------------------------------------------------ history
\* The flags of the current build cycle: a finish() call has ended the last one.
LiveCalls == IF last_call = "finish" THEN <<>> ELSE calls

\* The flags the validity tracker holds: a finish() call that got past its
\* length assertion has reset it.
LiveTracked ==
    IF last_call = "finish" /\ out.kind # "LengthMismatch" THEN <<>> ELSE tracked

\* The snapshot of the current build cycle, if any.
LiveSnap == IF last_call = "finish" THEN None ELSE snap

\* ---------------------------------------------------------------- Init
\* Before construction: the caller holds a child builder of either element
\* type, which may already hold values.  The builder's own fields have no
\* value yet; they are written by new() or with_capacity().
Init ==
    /\ null_buffer_builder = <<>>
    /\ values_builder \in SeqUpTo(ChildElems, MaxInitChild)
    /\ values_type \in DataTypes
    /\ list_len = 0
    /\ field = None
    /\ last_call = "none"
    /\ out = NoResult
    /\ calls = <<>>
    /\ tracked = <<>>
    /\ sized = TRUE
    /\ snap = None
    /\ given_len = 0

\* A constructor has run: the builder exists.
Constructed == last_call # "none"

\* The value_length a builder is constructed with (new rejects none).
ListLens == 0..MaxListLen

\* ------------------------------------------------------------- actions
\* The capacity new() asks for:
\* values_builder.len().checked_div(value_length as _).unwrap_or_default()
NewCapacity(n, value_len) ==
    IF value_len = 0 THEN 0 ELSE n \div value_len

\* with_capacity that starts the tracker with capacity rows instead of none.
with_capacity_as_len(value_len, capacity) ==
    /\ ~Constructed
    /\ null_buffer_builder' = [i \in 1..capacity |-> TRUE]
    /\ values_builder' = values_builder
    /\ list_len' = value_len
    /\ given_len' = value_len
    /\ field' = None
    /\ last_call' = "with_capacity"
    /\ out' = NoResult
    /\ UNCHANGED <<values_type, calls, tracked, sized, snap>>

\* FixedSizeListBuilder::with_capacity(values_builder, value_length, capacity)
with_capacity(value_len, capacity) ==
    /\ ~Constructed
    /\ null_buffer_builder' = NullBufferNew(capacity)
    /\ values_builder' = values_builder
    /\ list_len' = value_len
    /\ given_len' = value_len
    /\ field' = None
    /\ last_call' = "with_capacity"
    /\ out' = NoResult
    /\ UNCHANGED <<values_type, calls, tracked, sized, snap>>

\* new() that divides by value_length unguarded: a value_length of 0 panics.
new_unguarded_division(value_len) ==
    LET capacity == IF value_len = 0 THEN 0
                    ELSE Len(values_builder) \div value_len
    IN  /\ ~Constructed
        /\ null_buffer_builder' = NullBufferNew(capacity)
        /\ values_builder' = values_builder
        /\ list_len' = value_len
        /\ given_len' = value_len
        /\ field' = None
        /\ last_call' = "new"
        /\ out' = IF value_len = 0 THEN [kind |-> "DivideByZero"] ELSE NoResult
        /\ UNCHANGED <<values_type, calls, tracked, sized, snap>>

\* FixedSizeListBuilder::new(values_builder, value_length)
new(value_len) ==
    LET capacity == NewCapacity(Len(values_builder), value_len)
    IN  /\ ~Constructed
        /\ null_buffer_builder' = NullBufferNew(capacity)
        /\ values_builder' = values_builder
        /\ list_len' = value_len
        /\ given_len' = value_len
        /\ field' = None
        /\ last_call' = "new"
        /\ out' = NoResult
        /\ UNCHANGED <<values_type, calls, tracked, sized, snap>>

\* builder.values().append_value(v) and builder.values().append_null()
values_append(e) ==
    /\ Constructed
    /\ Len(values_builder) < MaxChild
    /\ values_builder' = Append(values_builder, e)
    /\ last_call' = "values"
    /\ out' = NoResult
    /\ calls' = LiveCalls
    /\ tracked' = LiveTracked
    /\ snap' = LiveSnap
    /\ UNCHANGED <<null_buffer_builder, values_type, given_len, list_len, field,
                   sized>>

\* append that marks every row valid, whatever flag it is given.
append_ignores_flag(is_valid) ==
    /\ Constructed
    /\ len < MaxRows
    /\ null_buffer_builder' = Append(null_buffer_builder, TRUE)
    /\ last_call' = "append"
    /\ out' = NoResult
    /\ calls' = Append(LiveCalls, is_valid)
    /\ tracked' = Append(LiveTracked, is_valid)
    /\ sized' = (sized /\ Len(values_builder) = (Len(LiveCalls) + 1) * list_len)
    /\ snap' = LiveSnap
    /\ UNCHANGED <<values_builder, values_type, given_len, list_len, field>>

\* append that asserts the row it delimits has list_len child values.
append_checks_row(is_valid) ==
    /\ Constructed
    /\ len < MaxRows
    /\ IF Len(values_builder) = (len + 1) * list_len
       THEN /\ null_buffer_builder' = Append(null_buffer_builder, is_valid)
            /\ out' = NoResult
            /\ calls' = Append(LiveCalls, is_valid)
            /\ tracked' = Append(LiveTracked, is_valid)
       ELSE /\ null_buffer_builder' = null_buffer_builder
            /\ out' = LengthMismatch(Len(values_builder), list_len, len + 1)
            /\ calls' = LiveCalls
            /\ tracked' = LiveTracked
    /\ last_call' = "append"
    /\ sized' = (sized /\ Len(values_builder) = (Len(LiveCalls) + 1) * list_len)
    /\ snap' = LiveSnap
    /\ UNCHANGED <<values_builder, values_type, given_len, list_len, field>>

\* FixedSizeListBuilder::append(is_valid)
append(is_valid) ==
    /\ Constructed
    /\ len < MaxRows
    /\ null_buffer_builder' = Append(null_buffer_builder, is_valid)
    /\ last_call' = "append"
    /\ out' = NoResult
    /\ calls' = Append(LiveCalls, is_valid)
    /\ tracked' = Append(LiveTracked, is_valid)
    /\ sized' = (sized /\ Len(values_builder) = (Len(LiveCalls) + 1) * list_len)
    /\ snap' = LiveSnap
    /\ UNCHANGED <<values_builder, values_type, given_len, list_len, field>>

\* FixedSizeListBuilder::with_field(field)
with_field(f) ==
    /\ Constructed
    /\ field' = Some(f)
    /\ last_call' = "with_field"
    /\ out' = NoResult
    /\ calls' = LiveCalls
    /\ tracked' = LiveTracked
    /\ snap' = LiveSnap
    /\ UNCHANGED <<null_buffer_builder, values_builder, values_type, given_len,
                   list_len, sized>>

\* finish() that takes the validity bitmap with finish_cloned(): rows are kept.
finish_keeps_rows ==
    LET r == FinishOutcome(null_buffer_builder, values_builder, values_type,
                           field, list_len)
    IN  /\ Constructed
        /\ out' = r
        /\ values_builder' = ValuesFinish(values_builder, values_type).builder
        /\ null_buffer_builder' =
               NullBufferFinishCloned(null_buffer_builder).builder
        /\ last_call' = "finish"
        /\ calls' = LiveCalls
        /\ tracked' = LiveTracked
        /\ sized' = (sized /\ Len(values_builder) = Len(LiveCalls) * list_len)
        /\ snap' = LiveSnap
        /\ UNCHANGED <<values_type, given_len, list_len, field>>

\* finish() that takes the child array with finish_cloned(): values are kept.
finish_keeps_values ==
    LET r == FinishOutcome(null_buffer_builder, values_builder, values_type,
                           field, list_len)
    IN  /\ Constructed
        /\ out' = r
        /\ values_builder' =
               ValuesFinishCloned(values_builder, values_type).builder
        /\ null_buffer_builder' =
               IF r.kind = "LengthMismatch"
               THEN null_buffer_builder
               ELSE NullBufferFinish(null_buffer_builder).builder
        /\ last_call' = "finish"
        /\ calls' = LiveCalls
        /\ tracked' = LiveTracked
        /\ sized' = (sized /\ Len(values_builder) = Len(LiveCalls) * list_len)
        /\ snap' = LiveSnap
        /\ UNCHANGED <<values_type, given_len, list_len, field>>

\* finish() that takes the field override out of the builder.
finish_takes_field ==
    LET r == FinishOutcome(null_buffer_builder, values_builder, values_type,
                           field, list_len)
    IN  /\ Constructed
        /\ out' = r
        /\ values_builder' = ValuesFinish(values_builder, values_type).builder
        /\ null_buffer_builder' =
               IF r.kind = "LengthMismatch"
               THEN null_buffer_builder
               ELSE NullBufferFinish(null_buffer_builder).builder
        /\ last_call' = "finish"
        /\ calls' = LiveCalls
        /\ tracked' = LiveTracked
        /\ sized' = (sized /\ Len(values_builder) = Len(LiveCalls) * list_len)
        /\ snap' = LiveSnap
        /\ field' = None
        /\ UNCHANGED <<values_type, given_len, list_len>>

\* finish() that takes the validity bitmap before the length check: a
\* LengthMismatch leaves no rows behind.
finish_resets_rows_first ==
    LET r == FinishOutcome(null_buffer_builder, values_builder, values_type,
                           field, list_len)
    IN  /\ Constructed
        /\ out' = r
        /\ values_builder' = ValuesFinish(values_builder, values_type).builder
        /\ null_buffer_builder' =
               NullBufferFinish(null_buffer_builder).builder
        /\ last_call' = "finish"
        /\ calls' = LiveCalls
        /\ tracked' = LiveTracked
        /\ sized' = (sized /\ Len(values_builder) = Len(LiveCalls) * list_len)
        /\ snap' = LiveSnap
        /\ UNCHANGED <<values_type, given_len, list_len, field>>

\* FixedSizeListBuilder::finish
finish ==
    LET r == FinishOutcome(null_buffer_builder, values_builder, values_type,
                           field, list_len)
    IN  /\ Constructed
        /\ out' = r
        /\ values_builder' = ValuesFinish(values_builder, values_type).builder
        /\ null_buffer_builder' =
               IF r.kind = "LengthMismatch"
               THEN null_buffer_builder
               ELSE NullBufferFinish(null_buffer_builder).builder
        /\ last_call' = "finish"
        /\ calls' = LiveCalls
        /\ tracked' = LiveTracked
        /\ sized' = (sized /\ Len(values_builder) = Len(LiveCalls) * list_len)
        /\ snap' = LiveSnap
        /\ UNCHANGED <<values_type, given_len, list_len, field>>

\* finish_cloned() that takes the child array with finish(): values are reset.
finish_cloned_resets_values ==
    LET r == FinishClonedOutcome(null_buffer_builder, values_builder,
                                 values_type, field, list_len)
    IN  /\ Constructed
        /\ out' = r
        /\ values_builder' = ValuesFinish(values_builder, values_type).builder
        /\ null_buffer_builder' =
               IF r.kind = "LengthMismatch"
               THEN null_buffer_builder
               ELSE NullBufferFinishCloned(null_buffer_builder).builder
        /\ last_call' = "finish_cloned"
        /\ calls' = LiveCalls
        /\ snap' = IF r.kind = "value"
                    THEN Some([nulls |-> r.nulls,
                               values |-> r.values_data.values])
                    ELSE LiveSnap
        /\ tracked' = LiveTracked
        /\ UNCHANGED <<values_type, given_len, list_len, field, sized>>

\* finish_cloned() that takes the validity bitmap with finish(): rows are reset.
finish_cloned_resets_rows ==
    LET r == FinishClonedOutcome(null_buffer_builder, values_builder,
                                 values_type, field, list_len)
    IN  /\ Constructed
        /\ out' = r
        /\ values_builder' =
               ValuesFinishCloned(values_builder, values_type).builder
        /\ null_buffer_builder' =
               IF r.kind = "LengthMismatch"
               THEN null_buffer_builder
               ELSE NullBufferFinish(null_buffer_builder).builder
        /\ last_call' = "finish_cloned"
        /\ calls' = LiveCalls
        /\ snap' = IF r.kind = "value"
                    THEN Some([nulls |-> r.nulls,
                               values |-> r.values_data.values])
                    ELSE LiveSnap
        /\ tracked' = LiveTracked
        /\ UNCHANGED <<values_type, given_len, list_len, field, sized>>

\* FixedSizeListBuilder::finish_cloned
finish_cloned ==
    LET r == FinishClonedOutcome(null_buffer_builder, values_builder,
                                 values_type, field, list_len)
    IN  /\ Constructed
        /\ out' = r
        /\ values_builder' =
               ValuesFinishCloned(values_builder, values_type).builder
        /\ null_buffer_builder' =
               IF r.kind = "LengthMismatch"
               THEN null_buffer_builder
               ELSE NullBufferFinishCloned(null_buffer_builder).builder
        /\ last_call' = "finish_cloned"
        /\ calls' = LiveCalls
        /\ snap' = IF r.kind = "value"
                    THEN Some([nulls |-> r.nulls,
                               values |-> r.values_data.values])
                    ELSE LiveSnap
        /\ tracked' = LiveTracked
        /\ UNCHANGED <<values_type, given_len, list_len, field, sized>>

Next ==
    \/ \E vl \in ListLens : new(vl)
    \/ \E vl \in ListLens, c \in 0..MaxCapacity : with_capacity(vl, c)
    \/ \E e \in ChildElems : values_append(e)
    \/ \E b \in BOOLEAN : append(b)
    \/ \E f \in Fields : with_field(f)
    \/ finish
    \/ finish_cloned

Spec == Init /\ [][Next]_vars

\* ------------------------------------------- FixedSizeListArray readers
\* Array::is_null(row), rows counted from 0.
is_null(a, r) == ~a.nulls[r + 1]

\* Array::null_count(): the rows marked invalid.
null_count(a) == Cardinality({i \in 1..Len(a.nulls) : ~a.nulls[i]})

\* FixedSizeListArray::value_offset(row)
value_offset(a, r) == r * a.list_len

\* FixedSizeListArray::value(row): the row's slice of the child array.
value(a, r) ==
    SubSeq(a.values_data.values, value_offset(a, r) + 1,
           value_offset(a, r) + a.list_len)

\* ------------------------------------------------------------- claims
\* The last step was a finalization call.
Finalized == last_call \in {"finish", "finish_cloned"}

\* The child builder holds exactly the rows delimited in this build cycle.
RowsComplete == Len(values_builder) = Len(calls) * list_len

\* C1: with correctly-sized rows and no field override, finish() returns an
\* array whose row_count is the number of append calls made since construction
\* or since the last finish(); finish_cloned() returns the same row_count and
\* does not restart the count.
C1_RowCountIsAppendCount ==
    /\ (last_call = "finish" /\ sized /\ field = None)
           => (out.kind = "value" /\ out.row_count = Len(calls))
    /\ (last_call = "finish_cloned" /\ sized /\ RowsComplete /\ field = None)
           => (out.kind = "value" /\ out.row_count = Len(calls)
               /\ len = Len(calls))

\* finish() has returned two correctly-sized rows of two child values each.
C1_Witness ==
    /\ last_call = "finish" /\ sized /\ field = None
    /\ out.kind = "value" /\ out.row_count = 2 /\ out.list_len = 2

\* C2: finish() and finish_cloned() fail with LengthMismatch exactly when the
\* finished child array's length differs from row_count * list_len, row_count
\* being the tracker's length before any reset; the failure reports the actual
\* child length, list_len and row_count, and nothing is returned.
C2_LengthMismatchExactly ==
    [][ last_call' \in {"finish", "finish_cloned"} =>
          /\ (out'.kind = "LengthMismatch")
                 <=> (Len(values_builder) # Len(null_buffer_builder) * list_len)
          /\ (out'.kind = "LengthMismatch") =>
                 out' = LengthMismatch(Len(values_builder), list_len,
                                       Len(null_buffer_builder)) ]_vars

\* finish() has failed on three child values against one row of two.
C2_Witness ==
    /\ last_call = "finish"
    /\ out = LengthMismatch(3, 2, 1)

\* C3: every array returned by finish() or finish_cloned() has
\* row_count * list_len child values and one validity flag per row, and it is
\* assembled only when the length check and the checks of the field override
\* hold of it.
C3_ReturnedValueInvariants ==
    (Finalized /\ out.kind = "value") =>
        /\ Len(out.values_data.values) = out.row_count * out.list_len
        /\ Len(out.nulls) = out.row_count
        /\ field # None =>
               /\ field[1].data_type = out.values_data.data_type
               /\ ~field[1].nullable => NullCount(out.values_data.values) = 0

\* finish_cloned() has returned two rows of two values each under a
\* non-nullable override.
C3_Witness ==
    /\ last_call = "finish_cloned" /\ out.kind = "value"
    /\ out.row_count = 2 /\ out.list_len = 2
    /\ field # None /\ ~field[1].nullable

\* C4: with a field override attached and the length check passed, finish()
\* and finish_cloned() fail with TypeMismatch whenever the override's type
\* differs from the child array's; every returned array's field has the type
\* of its child array.
C4_TypeMismatch ==
    [][ last_call' \in {"finish", "finish_cloned"} =>
          /\ ( /\ field # None
               /\ Len(values_builder) = Len(null_buffer_builder) * list_len
               /\ field[1].data_type # values_type )
                 => out' = TypeMismatch(field[1].data_type, values_type)
          /\ (out'.kind = "value") =>
                 /\ out'.field.data_type = values_type
                 /\ out'.values_data.data_type = values_type ]_vars

\* finish() has failed on an Int64 override over an Int32 child builder.
C4_Witness ==
    /\ last_call = "finish"
    /\ out = TypeMismatch("Int64", "Int32")

\* C5: with a non-nullable field override attached and the length and type
\* checks passed, finish() and finish_cloned() fail with NullabilityViolation
\* whenever the child array holds a null, also one under a row marked invalid;
\* every returned array with a non-nullable field has no null child value.
C5_NullabilityViolation ==
    [][ last_call' \in {"finish", "finish_cloned"} =>
          /\ ( /\ field # None
               /\ Len(values_builder) = Len(null_buffer_builder) * list_len
               /\ field[1].data_type = values_type
               /\ ~field[1].nullable
               /\ NullCount(values_builder) >= 1 )
                 => out' = NullabilityViolation
          /\ (out'.kind = "value" /\ ~out'.field.nullable) =>
                 NullCount(out'.values_data.values) = 0 ]_vars

\* finish_cloned() has failed on a null child value whose row is invalid.
C5_Witness ==
    /\ last_call = "finish_cloned"
    /\ out = NullabilityViolation
    /\ list_len = 1
    /\ null_buffer_builder = <<FALSE>>
    /\ values_builder = <<None>>

\* C6: after a finish() call that returns an array the builder's row count and
\* the child builder's length are both 0; a second finish() right after it
\* returns an array of 0 rows, and rows appended after it count from zero.
C6_FinishResets ==
    [][ /\ (last_call' = "finish" /\ out'.kind = "value") =>
               /\ Len(null_buffer_builder') = 0
               /\ Len(values_builder') = 0
        /\ (last_call = "finish" /\ out.kind = "value" /\ last_call' = "finish")
               => (out'.kind = "value" /\ out'.row_count = 0)
        /\ (last_call = "finish" /\ out.kind = "value" /\ last_call' = "append")
               => Len(null_buffer_builder') = 1 ]_vars

\* finish() has returned one row of two child values and left the builder empty.
C6_Witness ==
    /\ last_call = "finish" /\ out.kind = "value"
    /\ out.row_count = 1 /\ out.list_len = 2
    /\ len = 0 /\ values_builder = <<>>

\* C7: finish_cloned() leaves the builder as it was, whether it returns an
\* array or fails: the rows and their validity flags, the child builder's
\* contents, list_len and the field override are unchanged.
C7_FinishClonedKeepsState ==
    [][ last_call' = "finish_cloned" =>
          UNCHANGED <<null_buffer_builder, values_builder, values_type,
                      list_len, field>> ]_vars

\* finish_cloned() has failed on one row with one child value of two, and the
\* row and the value are still there.
C7_Witness ==
    /\ last_call = "finish_cloned" /\ out.kind = "LengthMismatch"
    /\ list_len = 2 /\ len = 1 /\ Len(values_builder) = 1

\* C8: from any builder state finish_cloned() has the outcome finish() would
\* have from that state: an equal array, or the same failure.
C8_FinishClonedAsFinish ==
    [][ last_call' = "finish_cloned" =>
          out' = FinishOutcome(null_buffer_builder, values_builder,
                               values_type, field, list_len) ]_vars

\* finish_cloned() has failed on a null under a non-nullable override.
C8_Witness ==
    /\ last_call = "finish_cloned"
    /\ out = NullabilityViolation
    /\ field # None /\ len = 2

\* C9: when finish_cloned() has returned a snapshot of k rows and no finish()
\* came since, the array a later finish() returns has at least k rows and its
\* first k rows have the snapshot's validity flags and child values.
C9_PrefixStability ==
    (last_call = "finish" /\ out.kind = "value" /\ snap # None) =>
        LET k == Len(snap[1].nulls) IN
        /\ out.row_count >= k
        /\ \A r \in 0..(k - 1) :
               /\ out.nulls[r + 1] = snap[1].nulls[r + 1]
               /\ value(out, r) = SubSeq(snap[1].values, r * list_len + 1,
                                         (r + 1) * list_len)

\* finish() has returned two rows after a snapshot of the first one.
C9_Witness ==
    /\ last_call = "finish" /\ out.kind = "value" /\ snap # None
    /\ Len(snap[1].nulls) = 1 /\ out.row_count = 2 /\ list_len = 2

\* The number of invalid flags among the first n of a sequence of flags.
InvalidAmong(flags, n) == Cardinality({i \in 1..n : ~flags[i]})

\* C10 as stated, on builders of a positive list_len: in every returned array,
\* is_null(r) negates the flag of the r-th append call since construction or
\* the last finish(), and null_count() is the number of those calls made with
\* is_valid = false.
C10_NullsFollowAppendsSinceFinish ==
    (Finalized /\ out.kind = "value" /\ list_len > 0) =>
        /\ out.row_count <= Len(calls)
        /\ \A r \in 0..(out.row_count - 1) : is_null(out, r) = ~calls[r + 1]
        /\ null_count(out) = InvalidAmong(calls, out.row_count)

\* C10 amended: in every returned array, is_null(r) negates the flag of the
\* r-th append call since construction or the last reset of the validity
\* tracker (a finish() that got past its length assertion), and null_count()
\* is the number of those calls made with is_valid = false.
C10_NullsFollowAppendsSinceReset ==
    (Finalized /\ out.kind = "value") =>
        /\ out.row_count = Len(tracked)
        /\ \A r \in 0..(out.row_count - 1) : is_null(out, r) = ~tracked[r + 1]
        /\ null_count(out) = InvalidAmong(tracked, out.row_count)

\* finish() has returned a valid and an invalid row whose child values hold a
\* null under the valid row.
C10_Witness ==
    /\ last_call = "finish" /\ out.kind = "value"
    /\ out.list_len = 1 /\ tracked = <<TRUE, FALSE>>
    /\ out.values_data.values = <<None, Some(7)>>
    /\ null_count(out) = 1

\* C11: in every returned array value_offset(r) = r * list_len for each row r,
\* and value(r) is the list_len child values at r*list_len .. (r+1)*list_len
\* of the child values, in the order they were appended.
C11_RowsAreSlices ==
    [][ (last_call' \in {"finish", "finish_cloned"} /\ out'.kind = "value") =>
          \A r \in 0..(out'.row_count - 1) :
              /\ value_offset(out', r) = r * list_len
              /\ Len(value(out', r)) = list_len
              /\ value(out', r) = SubSeq(values_builder, r * list_len + 1,
                                         (r + 1) * list_len) ]_vars

\* finish() has returned the rows [7, null] and [null, 7].
C11_Witness ==
    /\ last_call = "finish" /\ out.kind = "value"
    /\ out.row_count = 2 /\ out.list_len = 2
    /\ value_offset(out, 1) = 2
    /\ value(out, 0) = <<Some(7), None>>
    /\ value(out, 1) = <<None, Some(7)>>

\* The child builder holds exactly list_len values for each row of the tracker.
LengthOk == Len(values_builder) = Len(null_buffer_builder) * list_len

\* The field override, if any, has the child builder's element type.
TypeOk == field # None => field[1].data_type = values_type

\* The field override, if any, is nullable or the child builder holds no null.
NullsOk ==
    field # None => (field[1].nullable \/ NullCount(values_builder) = 0)

\* C12: with no field override a finalization never fails with TypeMismatch or
\* NullabilityViolation, whatever nulls the child values hold, and a returned
\* array has the default field ("item", nullable, the child array's type); with
\* an override that passes validation the returned array's field is exactly the
\* override, whatever its name.
C12_DescriptorResolution ==
    [][ last_call' \in {"finish", "finish_cloned"} =>
          /\ field = None =>
                 /\ out'.kind \in {"value", "LengthMismatch"}
                 /\ LengthOk =>
                        /\ out'.kind = "value"
                        /\ out'.field = Field("item", values_type, TRUE)
          /\ (field # None /\ LengthOk /\ TypeOk /\ NullsOk) =>
                 /\ out'.kind = "value"
                 /\ out'.field = field[1] ]_vars

\* finish_cloned() has returned an array with the default field over child
\* values that hold a null.
C12_Witness ==
    /\ last_call = "finish_cloned" /\ out.kind = "value" /\ field = None
    /\ out.row_count = 2
    /\ NullCount(out.values_data.values) >= 1
    /\ out.field = Field("item", "Int64", TRUE)

\* C13: finish() and finish_cloned() check the length first, then the
\* override's type, then the override's nullability; a call fails with the
\* first check that does not hold, and with that one only.
C13_ValidationOrder ==
    [][ last_call' \in {"finish", "finish_cloned"} =>
          /\ out'.kind \in {"value", "LengthMismatch", "TypeMismatch",
                            "NullabilityViolation"}
          /\ ~LengthOk => out'.kind = "LengthMismatch"
          /\ (LengthOk /\ ~TypeOk) => out'.kind = "TypeMismatch"
          /\ (LengthOk /\ TypeOk /\ ~NullsOk) =>
                 out'.kind = "NullabilityViolation"
          /\ (LengthOk /\ TypeOk /\ NullsOk) => out'.kind = "value" ]_vars

\* finish_cloned() has failed with LengthMismatch in a state where the type
\* and the nullability checks would fail as well.
C13_Witness ==
    /\ last_call = "finish_cloned" /\ out.kind = "LengthMismatch"
    /\ ~LengthOk /\ ~TypeOk /\ ~NullsOk

\* C14: append(is_valid) never fails and does not look at the child builder:
\* whatever the number of child values appended since the last row delimiter,
\* it adds one row and leaves the child builder, list_len and the field
\* override unchanged; appending child values never changes the row count; the
\* row length is checked at finish() and finish_cloned() only.
C14_AppendFrame ==
    [][ /\ last_call' = "append" =>
               /\ out' = NoResult
               /\ Len(null_buffer_builder') = Len(null_buffer_builder) + 1
               /\ UNCHANGED <<values_builder, values_type, list_len, field>>
        /\ last_call' = "values" =>
               /\ out' = NoResult
               /\ UNCHANGED <<null_buffer_builder, list_len, field>>
        /\ out'.kind = "LengthMismatch" =>
               last_call' \in {"finish", "finish_cloned"} ]_vars

\* append() has delimited a second row of one child value while the child
\* builder holds three values.
C14_Witness ==
    /\ last_call = "append" /\ out = NoResult
    /\ list_len = 1 /\ len = 2 /\ Len(values_builder) = 3
    /\ ~sized

\* C15: new() and with_capacity() produce a builder of 0 rows with no field
\* override and leave the child builder they are given as it is, for every
\* capacity and also when the child builder already holds values.
C15_Construction ==
    [][ last_call' \in {"new", "with_capacity"} =>
          /\ ~Constructed
          /\ out' = NoResult
          /\ Len(null_buffer_builder') = 0
          /\ field' = None
          /\ values_builder' = values_builder
          /\ values_type' = values_type ]_vars

\* with_capacity() has built a builder of 0 rows around a child builder that
\* already held a value.
C15_Witness ==
    /\ last_call = "with_capacity"
    /\ len = 0 /\ field = None
    /\ values_builder = <<Some(7)>>

\* C16: list_len and the field override survive every finalization:
\* value_length() stays the value_length given at construction, every returned
\* array carries it, and an override attached with with_field is validated and
\* applied by every later finish() and finish_cloned(); with_field changes the
\* override only.
C16_ListLenAndFieldFixed ==
    [][ /\ last_call' # "none" => list_len' = given_len'
        /\ Constructed =>
               /\ given_len' = given_len
               /\ IF last_call' = "with_field"
                  THEN /\ field' # None
                       /\ UNCHANGED <<null_buffer_builder, values_builder,
                                      values_type, list_len>>
                  ELSE field' = field
        /\ last_call' \in {"finish", "finish_cloned"} =>
               /\ (field # None /\ LengthOk /\ ~TypeOk) =>
                      out'.kind = "TypeMismatch"
               /\ (field # None /\ LengthOk /\ TypeOk /\ ~NullsOk) =>
                      out'.kind = "NullabilityViolation"
               /\ out'.kind = "value" =>
                      /\ out'.list_len = given_len
                      /\ field # None => out'.field = field[1] ]_vars

\* finish() has returned a row of two values under the override it was given,
\* and the builder still holds the override and its value_length.
C16_Witness ==
    /\ last_call = "finish" /\ out.kind = "value"
    /\ out.row_count = 1 /\ out.list_len = 2
    /\ field = Some(Field("list_item", "Int32", FALSE))
    /\ out.field = field[1]
    /\ value_length = 2 /\ given_len = 2

\* C17: a failed finish() is half-way through its resets: on LengthMismatch the
\* child builder is reset and the validity tracker keeps its rows; on
\* TypeMismatch and NullabilityViolation both are reset.  A failed
\* finish_cloned() leaves the builder as it was.
C17_FailedFinishHalfReset ==
    [][ /\ (last_call' = "finish" /\ out'.kind = "LengthMismatch") =>
               /\ values_builder' = <<>>
               /\ null_buffer_builder' = null_buffer_builder
        /\ (last_call' = "finish"
              /\ out'.kind \in {"TypeMismatch", "NullabilityViolation"}) =>
               /\ values_builder' = <<>>
               /\ null_buffer_builder' = <<>>
        /\ (last_call' = "finish_cloned" /\ out'.kind # "value") =>
               UNCHANGED <<null_buffer_builder, values_builder, values_type,
                           list_len, field>> ]_vars

\* finish() has failed on one child value under one row of two: the child
\* builder is empty and the row is still tracked.
C17_Witness ==
    /\ last_call = "finish"
    /\ out = LengthMismatch(1, 2, 1)
    /\ values_builder = <<>>
    /\ len = 1

\* C18 as stated: with list_len = 0, finish() and finish_cloned() succeed
\* exactly when the child builder is empty, whatever the row count.
C18_ZeroLenSucceedsIffChildEmpty ==
    [][ (last_call' \in {"finish", "finish_cloned"} /\ list_len = 0) =>
            (out'.kind = "value" <=> values_builder = <<>>) ]_vars

\* C18: construction does not fail and takes the value_length it is given, 0
\* included; with list_len = 0, finish() and finish_cloned() pass the length
\* check exactly when the child builder is empty, whatever the row count, and
\* then succeed exactly when no field override of another child type is
\* attached.
C18_ZeroLenLengthCheck ==
    [][ /\ last_call' \in {"new", "with_capacity"} =>
               /\ out' = NoResult
               /\ list_len' = given_len'
        /\ (last_call' \in {"finish", "finish_cloned"} /\ list_len = 0) =>
               /\ out'.kind = "LengthMismatch" <=> values_builder # <<>>
               /\ out'.kind = "value" <=> (values_builder = <<>> /\ TypeOk)
               /\ out'.kind = "TypeMismatch" <=>
                      (values_builder = <<>> /\ ~TypeOk) ]_vars

\* A builder constructed with value_length 0 has returned two rows from
\* finish() with no child values.
C18_Witness ==
    /\ given_len = 0 /\ list_len = 0
    /\ last_call = "finish"
    /\ out.kind = "value"
    /\ out.row_count = 2
    /\ out.values_data.values = <<>>

====
